---- MODULE Spec2Model ----
(***************************************************************************)
(* Stackful coroutines of asio (spawn.hpp): the yield context, the spawn   *)
(* launcher and the suspension/resumption protocol, driven by a pool of    *)
(* worker threads that service the executors' queues.                      *)
(*                                                                         *)
(* spawn.hpp holds the yield context and the declarations of spawn; the    *)
(* protocol itself (asio/impl/spawn.hpp) and the executors are modelled    *)
(* from the specification.                                                 *)
(*                                                                         *)
(* The thread group (detail/thread_group.hpp over polyfill_thread) is a    *)
(* second state machine, PoolSpec, over its own variables.                 *)
(***************************************************************************)
EXTENDS Integers, Sequences, FiniteSets, TLC

(* ---- bounds ---- *)
MaxTasks == 2        \* spawned tasks
NumWorkers == 2      \* worker threads running the dispatcher
MaxOps == 2          \* awaited operations initiated in a run

Tasks == 1..MaxTasks
Items == Tasks \cup {0}   \* posted work: a task to run, or a null spawned thread

(* ---- executors: one strand and one plain (io_context) executor ---- *)
Executors == {"strand", "io"}
IsStrand(ex) == ex = "strand"

(* ---- error codes and exceptions ---- *)
Success == "success"
Errors == {"success", "E", "operation_aborted"}
NoException == [type |-> "none", code |-> "success"]
UserException == [type |-> "user", code |-> "success"]
\* throw_error(ec): a non-success error_code becomes a system_error carrying ec
system_error(e) == [type |-> "system_error", code |-> e]

(***************************************************************************)
(* basic_yield_context                                                     *)
(***************************************************************************)
basic_yield_context_null(spawned_thread, ex) ==
  [spawned_thread_ |-> 0, executor_ |-> ex, ec_ |-> 0]

basic_yield_context_shared(spawned_thread, ex) ==
  [spawned_thread_ |-> 1, executor_ |-> ex, ec_ |-> 0]

\* basic_yield_context(spawned_thread_base*, const Executor&)
basic_yield_context(spawned_thread, ex) ==
  [spawned_thread_ |-> spawned_thread, executor_ |-> ex, ec_ |-> 0]

get_executor_default(ctx) == "io"

\* basic_yield_context::get_executor
get_executor(ctx) == ctx.executor_

operator_index_unset(ctx, ec) ==
  [spawned_thread_ |-> ctx.spawned_thread_, executor_ |-> ctx.executor_,
   ec_ |-> ctx.ec_]

operator_index_fresh(ctx, ec) ==
  [spawned_thread_ |-> 0, executor_ |-> ctx.executor_, ec_ |-> ec]

\* basic_yield_context::operator[](error_code& ec): a copy whose ec_ is &ec
operator_index(ctx, ec) ==
  [spawned_thread_ |-> ctx.spawned_thread_, executor_ |-> ctx.executor_,
   ec_ |-> ec]

basic_yield_context_convert_no_slot(other) ==
  [spawned_thread_ |-> other.spawned_thread_, executor_ |-> other.executor_,
   ec_ |-> 0]

\* basic_yield_context(const basic_yield_context<OtherExecutor>& other): the
\* three members are initialised from those of other
basic_yield_context_convert(other) ==
  [spawned_thread_ |-> other.spawned_thread_, executor_ |-> other.executor_,
   ec_ |-> other.ec_]

\* the ways a body makes the completion token of an operation from its
\* yield context ctx: ctx or ctx[ec] itself, or converted to another
\* executor type before or after [ec] is applied
Derivations == {"direct", "converted_first", "converted_last"}
derived_token(ctx, useSlot, ec, how) ==
  LET base == IF how = "converted_first"
                THEN basic_yield_context_convert(ctx) ELSE ctx
      indexed == IF useSlot THEN operator_index(base, ec) ELSE base
  IN IF how = "converted_last"
       THEN basic_yield_context_convert(indexed) ELSE indexed

(***************************************************************************)
(* spawn_signature<T>: void(exception_ptr, T); spawn_signature<void>:      *)
(* void(exception_ptr)                                                     *)
(***************************************************************************)
spawn_signature_no_error(is_void) ==
  IF is_void THEN << >> ELSE <<"T">>

spawn_signature_no_result(is_void) == <<"exception_ptr">>

spawn_signature(is_void) ==
  IF is_void THEN <<"exception_ptr">> ELSE <<"exception_ptr", "T">>

\* the arguments a completion handler of that signature is invoked with
handler_args(is_void, e, r) ==
  LET sig == spawn_signature(is_void)
      names == {sig[i] : i \in DOMAIN sig}
  IN [n \in names |-> IF n = "exception_ptr" THEN e ELSE r]

inherited_executor_default(ctx) == "io"

\* spawn(const basic_yield_context<Executor>& ctx, ...): the new coroutine
\* inherits the executor of the parent
inherited_executor(ctx) == get_executor(ctx)

(***************************************************************************)
(* Executor collaborator                                                   *)
(***************************************************************************)
post_lost(q, ex, item) == q

\* post(ex, work): schedule work for later execution (no order is promised
\* across items, so the posted work of an executor is a bag)
post(q, ex, item) == [q EXCEPT ![ex][item] = @ + 1]

\* the launcher's entry point captures an exception that leaves the body
spawn_entry_point(e) == [captured |-> e, rethrown |-> NoException]

(***************************************************************************)
(* State                                                                   *)
(***************************************************************************)
VARIABLES
  state,      \* task -> "none" | "runnable" | "running" | "suspended" | "done"
  yield,      \* task -> the yield context passed to its body
  parent,     \* task -> the task it was spawned from (0: none)
  pc,         \* task -> awaited operations initiated by the body
  resumes,    \* task -> resumptions after a suspension
  holder,     \* task -> result/error holder of the completed operation
  exc,        \* task -> exception propagating in the body
  got,        \* task -> value the most recent awaited call returned to the
              \*   body (0: none); the body returns it as its result
  ec,         \* task -> the error_code the body passes as yield[ec] (a fresh
              \*   variable for each call)
  started,    \* awaited operations initiated so far, over all tasks
  pending,    \* task -> the operation the task is suspended on
  completed,  \* task -> invocations of the spawn completion handler
  posted,     \* executor -> item -> number of posted, not yet executed items
  inside,     \* task -> executor -> worker threads executing the task's
              \*   body, each having taken its item from that executor
  escaped,    \* exceptions that propagated into a worker's dispatch loop
  stack       \* task -> the execution state (stack) allocated for it

\* thread_group: the pool of worker threads and the context that owns it
VARIABLES
  first_,     \* the list of items, head first: a sequence of thread ids
  thread,     \* thread id -> "none" | "running" | "exited" | "joined"
  attr,       \* thread id -> attributes of the thread
  node,       \* thread id -> "none" | "live" | "deleted": its list item
  caller,     \* the owning context: "idle" | "join" | "dtor_join" |
              \*   "destroyed"
  flag,       \* the shared flag the threads' loops poll
  ret         \* the last call made on the pool and what it returned

coroutinevars == <<state, yield, parent, pc, resumes, holder, exc, got, ec,
                   started, pending, completed, posted, inside, escaped,
                   stack>>
poolvars == <<first_, thread, attr, node, caller, flag, ret>>
vars == <<coroutinevars, poolvars>>

NullContext == [spawned_thread_ |-> 0, executor_ |-> "io", ec_ |-> 0]
EmptyHolder == [present |-> FALSE, ec |-> Success, value |-> 0, slot |-> 0,
                redirected |-> FALSE]
NoOp == [active |-> FALSE, token |-> NullContext, redirected |-> FALSE,
         cancelled |-> FALSE]
NotCompleted == [calls |-> 0, args |-> [n \in {} |-> NoException]]

\* the execution state of a task: allocated by the launcher, released when
\* the task terminates
NoStack == [allocated |-> FALSE, releases |-> 0]
stack_allocate(s) == [allocated |-> TRUE, releases |-> s.releases]
stack_release(s) == [allocated |-> FALSE, releases |-> s.releases + 1]

(* ---- thread_group: bounds and values ---- *)
MaxThreads == 2      \* threads created in a run of the pool
Threads == 1..MaxThreads
\* the tunables of a thread (cpf::thread), each over two values
Attributes == {"priority", "native_priority", "affinity", "dtor_action"}
Values == {0, 1}
\* cpf::thread::attributes{}
attributes_default == [a \in Attributes |-> 0]
\* what a getter returns when the read through first_ crashes
Crash == -1
NoRet == [op |-> "none", attr |-> "", n |-> 0, value |-> 0]

\* thread_group(): first_(0)
thread_group ==
  /\ first_ = << >>
  /\ thread = [i \in Threads |-> "none"]
  /\ attr = [i \in Threads |-> attributes_default]
  /\ node = [i \in Threads |-> "none"]
  /\ caller = "idle"
  /\ flag = FALSE
  /\ ret = NoRet

\* worker threads executing the body of t
Inside(t) == inside[t]["strand"] + inside[t]["io"]
Running(t) == Inside(t) > 0

RECURSIVE BusyUpTo(_)
BusyUpTo(n) == IF n = 0 THEN 0 ELSE Inside(n) + BusyUpTo(n - 1)
\* worker threads that are executing some task, the others are idle in the
\* dispatch loop
Busy == BusyUpTo(MaxTasks)
SomeWorkerIdle == Busy < NumWorkers

Init ==
  /\ state = [t \in Tasks |-> "none"]
  /\ yield = [t \in Tasks |-> NullContext]
  /\ parent = [t \in Tasks |-> 0]
  /\ pc = [t \in Tasks |-> 0]
  /\ resumes = [t \in Tasks |-> 0]
  /\ holder = [t \in Tasks |-> EmptyHolder]
  /\ exc = [t \in Tasks |-> NoException]
  /\ got = [t \in Tasks |-> 0]
  /\ ec = [t \in Tasks |-> Success]
  /\ started = 0
  /\ pending = [t \in Tasks |-> NoOp]
  /\ completed = [t \in Tasks |-> NotCompleted]
  /\ posted = [ex \in Executors |-> [i \in Items |-> 0]]
  /\ inside = [t \in Tasks |-> [ex \in Executors |-> 0]]
  /\ escaped = 0
  /\ stack = [t \in Tasks |-> NoStack]
  /\ thread_group

(***************************************************************************)
(* Spawn launcher                                                          *)
(***************************************************************************)
\* create the task bound to ex and post its first execution on ex
Launch(t, ex, p) ==
  /\ state[t] = "none"
  /\ \A u \in Tasks : u < t => state[u] # "none"
  /\ state' = [state EXCEPT ![t] = "runnable"]
  /\ yield' = [yield EXCEPT ![t] = basic_yield_context(t, ex)]
  /\ parent' = [parent EXCEPT ![t] = p]
  /\ posted' = post(posted, ex, t)
  /\ stack' = [stack EXCEPT ![t] = stack_allocate(@)]
  /\ UNCHANGED <<pc, resumes, holder, exc, got, ec, started, pending,
                 completed, inside, escaped>>
  /\ UNCHANGED poolvars

\* spawn(const Executor& ex, function, token), called outside any task
spawn_ex(t, ex) == Launch(t, ex, 0)

\* spawn(const basic_yield_context<Executor>& ctx, function, token), called
\* by the running body of p with its own yield context
spawn_ctx(p, c) ==
  /\ Running(p)
  /\ state[p] = "running"
  /\ exc[p] = NoException
  /\ Launch(c, inherited_executor(yield[p]), p)

(***************************************************************************)
(* Worker threads: an idle worker takes a posted item and runs it; a       *)
(* strand never has two of its items running at once                       *)
(***************************************************************************)
\* the suspended call returns in the body of t: the error goes to the slot,
\* or is thrown at the suspension point, or the value is returned
on_resume(t) ==
  LET h == holder[t]
      thrown == h.slot = 0 /\ h.ec # Success
  IN /\ ec' = IF h.slot \in Tasks THEN [ec EXCEPT ![h.slot] = h.ec] ELSE ec
     /\ exc' = [exc EXCEPT ![t] = IF thrown THEN system_error(h.ec)
                                     ELSE NoException]
     /\ got' = [got EXCEPT ![t] = IF thrown THEN 0 ELSE h.value]
     /\ holder' = [holder EXCEPT ![t] = EmptyHolder]
     /\ resumes' = [resumes EXCEPT ![t] = @ + 1]

Execute(ex, t) ==
  /\ SomeWorkerIdle
  /\ posted[ex][t] > 0
  /\ IsStrand(ex) => \A u \in Tasks : inside[u][ex] = 0
  /\ posted' = [posted EXCEPT ![ex][t] = @ - 1]
  /\ IF t \in Tasks
       THEN /\ inside' = [inside EXCEPT ![t][ex] = @ + 1]
            /\ state' = [state EXCEPT ![t] = "running"]
            /\ IF holder[t].present
                 THEN on_resume(t)
                 ELSE UNCHANGED <<ec, exc, got, holder, resumes>>
       ELSE UNCHANGED <<inside, state, ec, exc, got, holder, resumes>>
  /\ UNCHANGED <<yield, parent, pc, started, pending, completed, escaped,
                 stack>>
  /\ UNCHANGED poolvars

(***************************************************************************)
(* Steps of the body of t, taken by the worker that executes it (having    *)
(* taken the item from ex)                                                 *)
(***************************************************************************)
InBody(t, ex) ==
  /\ inside[t][ex] > 0
  /\ state[t] = "running"

\* result = operation(args, yield) or operation(args, yield[ec]): the
\* operation stores the resumption callback, the task is suspended and
\* control returns to the worker
Await(t, ex, useSlot) ==
  \E how \in Derivations :
  LET token == derived_token(yield[t], useSlot, t, how)
  IN /\ InBody(t, ex)
     /\ exc[t] = NoException
     /\ started < MaxOps
     /\ started' = started + 1
     /\ pending' = [pending EXCEPT ![t] =
                      [active |-> TRUE, token |-> token,
                       redirected |-> useSlot, cancelled |-> FALSE]]
     /\ pc' = [pc EXCEPT ![t] = @ + 1]
     /\ ec' = [ec EXCEPT ![t] = Success]
     /\ got' = [got EXCEPT ![t] = 0]
     /\ state' = [state EXCEPT ![t] = "suspended"]
     /\ inside' = [inside EXCEPT ![t][ex] = @ - 1]
     /\ UNCHANGED <<yield, parent, resumes, holder, exc, completed, posted,
                    escaped, stack>>
     /\ UNCHANGED poolvars

\* the body catches the error thrown at the suspension point and goes on (an
\* exception of its own that the body catches is part of its control flow)
Catch(t, ex) ==
  /\ InBody(t, ex)
  /\ exc[t] # NoException
  /\ exc' = [exc EXCEPT ![t] = NoException]
  /\ UNCHANGED <<state, yield, parent, pc, resumes, holder, got, ec, started,
                 pending, completed, posted, inside, escaped, stack>>
  /\ UNCHANGED poolvars

\* functions spawned by spawn_ex return a value, those spawned from a
\* parent's yield context return void
is_void(t) == parent[t] # 0

\* the task terminates: the completion handler is invoked with the captured
\* exception and the result, the task's storage is released, its yield
\* context is discarded and the worker is back in its dispatch loop
Terminate(t, ex, e, r) ==
  LET entry == spawn_entry_point(e) IN
  /\ completed' = [completed EXCEPT ![t] =
        [calls |-> @.calls + 1,
         args |-> handler_args(is_void(t), entry.captured, r)]]
  /\ state' = [state EXCEPT ![t] = "done"]
  /\ inside' = [inside EXCEPT ![t][ex] = @ - 1]
  /\ escaped' = IF entry.rethrown = NoException THEN escaped ELSE escaped + 1
  /\ pc' = [pc EXCEPT ![t] = 0]
  /\ resumes' = [resumes EXCEPT ![t] = 0]
  /\ exc' = [exc EXCEPT ![t] = NoException]
  /\ got' = [got EXCEPT ![t] = 0]
  /\ ec' = [ec EXCEPT ![t] = Success]
  /\ yield' = [yield EXCEPT ![t] = NullContext]
  /\ parent' = [parent EXCEPT ![t] = 0]
  /\ stack' = [stack EXCEPT ![t] = stack_release(@)]
  /\ UNCHANGED <<holder, started, pending, posted>>
  /\ UNCHANGED poolvars

\* the body returns (the value it got last, unless the function is void)
Return(t, ex) ==
  /\ InBody(t, ex)
  /\ exc[t] = NoException
  /\ Terminate(t, ex, NoException, IF is_void(t) THEN 0 ELSE got[t])

\* the error thrown at the suspension point leaves the body uncaught
Unwind(t, ex) ==
  /\ InBody(t, ex)
  /\ exc[t] # NoException
  /\ Terminate(t, ex, exc[t], 0)

\* the body throws an exception of its own and does not catch it
Throw(t, ex) ==
  /\ InBody(t, ex)
  /\ exc[t] = NoException
  /\ Terminate(t, ex, UserException, 0)

(***************************************************************************)
(* Reactor collaborator: a pending operation completes, or is cancelled    *)
(***************************************************************************)
Outcomes(op) ==
  IF op.cancelled THEN {"operation_aborted"} ELSE {"success", "E"}

\* the operation of t completes with err in the dispatch loop of an idle
\* worker: the stored callback posts the resumption of the token's task on
\* the token's executor
Complete(t, err) ==
  LET token == pending[t].token
      target == token.spawned_thread_
  IN /\ SomeWorkerIdle
     /\ pending[t].active
     /\ err \in Outcomes(pending[t])
     /\ pending' = [pending EXCEPT ![t] = NoOp]
     /\ IF target \in Tasks
          THEN /\ holder' = [holder EXCEPT ![target] =
                     [present |-> TRUE, ec |-> err, value |-> pc[t],
                      slot |-> token.ec_,
                      redirected |-> pending[t].redirected]]
               /\ state' = [state EXCEPT ![target] = "runnable"]
          ELSE UNCHANGED <<holder, state>>
     /\ posted' = post(posted, get_executor(token), target)
     /\ UNCHANGED <<yield, parent, pc, resumes, exc, got, ec, started,
                    completed, inside, escaped, stack>>
     /\ UNCHANGED poolvars

Cancel(t) ==
  /\ pending[t].active
  /\ ~pending[t].cancelled
  /\ pending' = [pending EXCEPT ![t] = [@ EXCEPT !.cancelled = TRUE]]
  /\ UNCHANGED <<state, yield, parent, pc, resumes, holder, exc, got, ec,
                 started, completed, posted, inside, escaped, stack>>
  /\ UNCHANGED poolvars

Next ==
  \/ \E t \in Tasks, ex \in Executors : spawn_ex(t, ex)
  \/ \E p \in Tasks, c \in Tasks : spawn_ctx(p, c)
  \/ \E ex \in Executors, t \in Items : Execute(ex, t)
  \/ \E t \in Tasks, ex \in Executors, useSlot \in BOOLEAN :
       Await(t, ex, useSlot)
  \/ \E t \in Tasks, ex \in Executors : Catch(t, ex)
  \/ \E t \in Tasks, ex \in Executors : Return(t, ex)
  \/ \E t \in Tasks, ex \in Executors : Unwind(t, ex)
  \/ \E t \in Tasks, ex \in Executors : Throw(t, ex)
  \/ \E t \in Tasks, err \in Errors : Complete(t, err)
  \/ \E t \in Tasks : Cancel(t)

Spec == Init /\ [][Next]_vars

(***************************************************************************)
(* Fair scheduling: posted items are eventually executed, a running body   *)
(* takes its next step, and every pending operation eventually invokes its *)
(* completion handler                                                      *)
(***************************************************************************)
BodyStep ==
  \E t \in Tasks, ex \in Executors :
    \/ \E useSlot \in BOOLEAN : Await(t, ex, useSlot)
    \/ Catch(t, ex)
    \/ Return(t, ex)
    \/ Unwind(t, ex)
    \/ Throw(t, ex)

FairSpec ==
  /\ Init /\ [][Next]_vars
  /\ WF_vars(\E ex \in Executors, t \in Items : Execute(ex, t))
  /\ WF_vars(\E t \in Tasks, err \in Errors : Complete(t, err))
  /\ WF_vars(BodyStep)

(***************************************************************************)
(* thread_group (detail/thread_group.hpp) over polyfill_thread             *)
(* (detail/polyfill_thread.hpp): a singly linked list of items, one per    *)
(* thread, owned and called by one context                                 *)
(***************************************************************************)
\* the pool object: the list and the threads and items it refers to
Pool == [first |-> first_, thread |-> thread, attr |-> attr, node |-> node]

\* threads created so far; ids are handed out in order
Created(P) == {i \in Threads : P.thread[i] # "none"}
NextId(P) == Cardinality(Created(P)) + 1

\* the attributes a caller passes to create_thread(f, attr)
AttrChoices == {[a \in Attributes |-> v] : v \in Values}

\* polyfill_thread(f, attributes): thread_(attributes, f) starts the thread
polyfill_thread(attributes) == [status |-> "running", attr |-> attributes]

item_inherit(P, attributes, next) ==
  LET i == NextId(P)
      t == polyfill_thread(IF next = << >> THEN attributes
                           ELSE P.attr[Head(next)])
  IN [first |-> <<i>> \o next,
      thread |-> [P.thread EXCEPT ![i] = t.status],
      attr |-> [P.attr EXCEPT ![i] = t.attr],
      node |-> [P.node EXCEPT ![i] = "live"]]

item_back(P, attributes, next) ==
  LET i == NextId(P)
      t == polyfill_thread(attributes)
  IN [first |-> next \o <<i>>,
      thread |-> [P.thread EXCEPT ![i] = t.status],
      attr |-> [P.attr EXCEPT ![i] = t.attr],
      node |-> [P.node EXCEPT ![i] = "live"]]

\* first_ = new item(f, attr, first_): item(f, attr, next) holds
\* thread_(f, attr) and next_(next), and becomes the head
item(P, attributes, next) ==
  LET i == NextId(P)
      t == polyfill_thread(attributes)
  IN [first |-> <<i>> \o next,
      thread |-> [P.thread EXCEPT ![i] = t.status],
      attr |-> [P.attr EXCEPT ![i] = t.attr],
      node |-> [P.node EXCEPT ![i] = "live"]]

\* the body of create_thread: when the construction of the item throws,
\* first_ is not assigned and the exception leaves create_thread
new_item(P, attributes, ok) ==
  IF ok THEN item(P, attributes, P.first) ELSE P

RECURSIVE create_loop_retry(_, _, _, _, _)
create_loop_retry(P, attributes, i, n, failAt) ==
  IF i > n THEN P
  ELSE IF i = failAt
    THEN create_loop_retry(P, attributes, i + 1, n, failAt)
  ELSE create_loop_retry(new_item(P, attributes, TRUE), attributes, i + 1,
                         n, failAt)

\* for (i = 0; i < num_threads; ++i) create_thread(f, attr): the creation
\* numbered failAt throws and ends the loop (failAt = 0: none throws)
RECURSIVE create_loop(_, _, _, _, _)
create_loop(P, attributes, i, n, failAt) ==
  IF i > n THEN P
  ELSE IF i = failAt THEN new_item(P, attributes, FALSE)
  ELSE create_loop(new_item(P, attributes, TRUE), attributes, i + 1, n,
                   failAt)

\* polyfill_thread::priority(value) and the other setters forward to the
\* thread
thread_set(at, a, v) == [at EXCEPT ![a] = v]

\* polyfill_thread::priority() and the other getters
thread_get(at, a) == at[a]

setter_walk_head(P, current, a, v) ==
  IF current = << >> THEN P.attr
  ELSE [P.attr EXCEPT ![Head(current)] = thread_set(@, a, v)]

\* item* current = first_; while (current) { current->thread_.a(value);
\* current = current->next_; }
RECURSIVE setter_walk(_, _, _, _)
setter_walk(P, current, a, v) ==
  IF current = << >> THEN P.attr
  ELSE LET Q == [P EXCEPT !.attr[Head(current)] = thread_set(@, a, v)]
       IN setter_walk(Q, Tail(current), a, v)

getter_invalid(P, a) ==
  IF P.first # << >> THEN {thread_get(P.attr[Head(P.first)], a), Crash}
  ELSE Values \cup {Crash}

getter_last(P, a) ==
  IF P.first # << >> THEN {thread_get(P.attr[P.first[Len(P.first)]], a)}
  ELSE Values \cup {Crash}

\* return first_->thread_.a(): reading through a null first_ is undefined,
\* the call crashes or returns an arbitrary value
getter(P, a) ==
  IF P.first # << >> THEN {thread_get(P.attr[Head(P.first)], a)}
  ELSE Values \cup {Crash}

\* polyfill_thread::join: if (thread_.joinable()) thread_.join(); the call
\* returns once the thread has exited
join_returns_never(st) == FALSE

join_returns(st) == st # "running"
polyfill_join_skip(st) == st

polyfill_join(st) == IF st \in {"running", "exited"} THEN "joined" ELSE st

join_iteration_last(P) ==
  LET h == P.first[Len(P.first)]
  IN [first |-> SubSeq(P.first, 1, Len(P.first) - 1),
      thread |-> [P.thread EXCEPT ![h] = polyfill_join(@)],
      attr |-> [P.attr EXCEPT ![h] = attributes_default],
      node |-> [P.node EXCEPT ![h] = "deleted"]]

join_iteration_leak(P) ==
  LET h == Head(P.first)
  IN [first |-> << >>,
      thread |-> [P.thread EXCEPT ![h] = polyfill_join(@)],
      attr |-> [P.attr EXCEPT ![h] = attributes_default],
      node |-> [P.node EXCEPT ![h] = "deleted"]]

\* first_->thread_.join(); item* tmp = first_; first_ = first_->next_;
\* delete tmp
join_iteration(P) ==
  LET h == Head(P.first)
  IN [first |-> Tail(P.first),
      thread |-> [P.thread EXCEPT ![h] = polyfill_join(@)],
      attr |-> [P.attr EXCEPT ![h] = attributes_default],
      node |-> [P.node EXCEPT ![h] = "deleted"]]

join_condition_never(first) == FALSE

join_condition_always(first) == TRUE

\* while (first_)
join_condition(first) == first # << >>

\* the pool's variables take the values of P
Becomes(P) ==
  /\ first_' = P.first
  /\ thread' = P.thread
  /\ attr' = P.attr
  /\ node' = P.node

\* create_thread(f): one item with default attributes
create_thread(ok) ==
  /\ caller = "idle"
  /\ NextId(Pool) <= MaxThreads
  /\ Becomes(new_item(Pool, attributes_default, ok))
  /\ ret' = [op |-> "create_thread", attr |-> "", n |-> 1,
             value |-> IF ok THEN 0 ELSE 1]
  /\ UNCHANGED <<caller, flag>>
  /\ UNCHANGED coroutinevars

\* create_thread(f, attr)
create_thread_attr(attributes, ok) ==
  /\ caller = "idle"
  /\ NextId(Pool) <= MaxThreads
  /\ Becomes(new_item(Pool, attributes, ok))
  /\ ret' = [op |-> "create_thread", attr |-> "", n |-> 1,
             value |-> IF ok THEN 0 ELSE 1]
  /\ UNCHANGED <<caller, flag>>
  /\ UNCHANGED coroutinevars

\* create_threads(f, num_threads)
create_threads(n, failAt) ==
  /\ caller = "idle"
  /\ failAt \in 0..n
  /\ NextId(Pool) + n - 1 <= MaxThreads
  /\ Becomes(create_loop(Pool, attributes_default, 1, n, failAt))
  /\ ret' = [op |-> "create_threads", attr |-> "", n |-> n,
             value |-> failAt]
  /\ UNCHANGED <<caller, flag>>
  /\ UNCHANGED coroutinevars

\* create_threads(f, attr, num_threads)
create_threads_attr(attributes, n, failAt) ==
  /\ caller = "idle"
  /\ failAt \in 0..n
  /\ NextId(Pool) + n - 1 <= MaxThreads
  /\ Becomes(create_loop(Pool, attributes, 1, n, failAt))
  /\ ret' = [op |-> "create_threads", attr |-> "", n |-> n,
             value |-> failAt]
  /\ UNCHANGED <<caller, flag>>
  /\ UNCHANGED coroutinevars

\* a setter called with value v
Set(a, v) ==
  /\ caller = "idle"
  /\ attr' = setter_walk(Pool, first_, a, v)
  /\ ret' = [op |-> "set", attr |-> a, n |-> 0, value |-> v]
  /\ UNCHANGED <<first_, thread, node, caller, flag>>
  /\ UNCHANGED coroutinevars

priority_set(v) == Set("priority", v)
native_priority_set(v) == Set("native_priority", v)
affinity_set(v) == Set("affinity", v)
dtor_action_set(v) == Set("dtor_action", v)

\* a getter
Get(a) ==
  /\ caller = "idle"
  /\ \E r \in getter(Pool, a) :
       /\ ret' = [op |-> "get", attr |-> a, n |-> 0, value |-> r]
       /\ caller' = IF r = Crash THEN "crashed" ELSE caller
  /\ UNCHANGED <<first_, thread, attr, node, flag>>
  /\ UNCHANGED coroutinevars

priority_get == Get("priority")
native_priority_get == Get("native_priority")
affinity_get == Get("affinity")
dtor_action_get == Get("dtor_action")

\* join() is entered by the owner (how |-> "join") or by the destructor
\* (how |-> "dtor_join"); on an empty list the loop is not entered and the
\* call returns at once
Enter(how, done) ==
  /\ caller = "idle"
  /\ ret' = [op |-> how, attr |-> "", n |-> Len(first_), value |-> 0]
  /\ caller' = IF join_condition(first_) THEN how ELSE done
  /\ UNCHANGED <<first_, thread, attr, node, flag>>
  /\ UNCHANGED coroutinevars

\* join()
join == Enter("join", "idle")

\* ~thread_group(): join()
destructor == Enter("dtor_join", "destroyed")

\* one iteration of the loop in join(): the join of the head's thread
\* returns, the head is unlinked and deleted; the call returns when the list
\* has become empty
join_step ==
  /\ caller \in {"join", "dtor_join"}
  /\ join_condition(first_)
  /\ join_returns(thread[Head(first_)])
  /\ LET P == join_iteration(Pool)
     IN /\ Becomes(P)
        /\ caller' = IF join_condition(P.first) THEN caller
                     ELSE IF caller = "join" THEN "idle" ELSE "destroyed"
  /\ UNCHANGED <<flag, ret>>
  /\ UNCHANGED coroutinevars

\* the shared flag is set
set_flag ==
  /\ ~flag
  /\ caller # "crashed"
  /\ flag' = TRUE
  /\ UNCHANGED <<first_, thread, attr, node, caller, ret>>
  /\ UNCHANGED coroutinevars

\* the function of thread i, a loop that polls the flag, returns
thread_exit(i) ==
  /\ thread[i] = "running"
  /\ flag
  /\ caller # "crashed"
  /\ thread' = [thread EXCEPT ![i] = "exited"]
  /\ UNCHANGED <<first_, attr, node, caller, flag, ret>>
  /\ UNCHANGED coroutinevars

PoolNext ==
  \/ \E ok \in BOOLEAN : create_thread(ok)
  \/ \E at \in AttrChoices, ok \in BOOLEAN : create_thread_attr(at, ok)
  \/ \E n \in 0..MaxThreads, failAt \in 0..MaxThreads :
       create_threads(n, failAt)
  \/ \E at \in AttrChoices, n \in 0..MaxThreads, failAt \in 0..MaxThreads :
       create_threads_attr(at, n, failAt)
  \/ \E v \in Values : priority_set(v)
  \/ \E v \in Values : native_priority_set(v)
  \/ \E v \in Values : affinity_set(v)
  \/ \E v \in Values : dtor_action_set(v)
  \/ priority_get
  \/ native_priority_get
  \/ affinity_get
  \/ dtor_action_get
  \/ join
  \/ destructor
  \/ join_step
  \/ set_flag
  \/ \E i \in Threads : thread_exit(i)

PoolSpec == Init /\ [][PoolNext]_vars

\* the flag is eventually set, a thread whose loop sees the flag exits, and
\* the owner blocked in join() goes on when the join of the head returns
PoolFairSpec ==
  /\ Init /\ [][PoolNext]_vars
  /\ WF_vars(set_flag)
  /\ WF_vars(\E i \in Threads : thread_exit(i))
  /\ WF_vars(join_step)

(***************************************************************************)
(* Properties                                                              *)
(***************************************************************************)
\* posted items that start or resume task t
Posted(t) == posted["strand"][t] + posted["io"][t]

\* callbacks that hold the right to resume t: completion handlers of pending
\* operations keyed to t, and posted items for t
Holders(t) ==
  Cardinality({u \in Tasks : pending[u].active
                             /\ pending[u].token.spawned_thread_ = t})
  + Posted(t)

\* C1: at most one worker thread is executing inside the body of a spawned
\* task, in every reachable state
C1_NoSelfOverlap ==
  \A t \in Tasks : Inside(t) <= 1

\* two tasks run on two workers of the same plain executor, one of them
\* after a resumption
C1_Witness ==
  \E t, u \in Tasks :
    /\ t # u
    /\ inside[t]["io"] = 1 /\ inside[u]["io"] = 1
    /\ resumes[t] >= 1

\* C2: while a task is parked (suspended on an operation or posted) exactly
\* one callback holds the right to resume it, otherwise none does, and the
\* resumptions never outnumber the suspensions
C2_ResumeRightUnique ==
  \A t \in Tasks :
    /\ state[t] \in {"suspended", "runnable"} => Holders(t) = 1
    /\ state[t] \in {"none", "running", "done"} => Holders(t) = 0
    /\ resumes[t] <= pc[t]
    /\ state[t] \in {"suspended", "runnable"} /\ pc[t] > 0
         => resumes[t] = pc[t] - 1
    /\ state[t] = "running" => resumes[t] = pc[t]

\* a task suspended for the second time, its first suspension resumed once
C2_Witness ==
  \E t \in Tasks :
    state[t] = "suspended" /\ pc[t] = 2 /\ resumes[t] = 1 /\ Holders(t) = 1

\* C3: a task only ever runs as an item taken from the executor bound to its
\* yield context, and its start and its resumptions are posted only there
C3_ResumeOnBoundExecutor ==
  /\ posted["strand"][0] = 0 /\ posted["io"][0] = 0
  /\ \A t \in Tasks : \A ex \in Executors :
       inside[t][ex] > 0 \/ posted[ex][t] > 0 => ex = yield[t].executor_

\* a task bound to the strand runs again after a suspension
C3_Witness ==
  \E t \in Tasks : inside[t]["strand"] = 1 /\ resumes[t] >= 1

\* C4: a child spawned from its parent's yield context is bound to the
\* parent's executor, and on a strand parent and child never run together
C4_ChildSharesStrand ==
  /\ [](\A c \in Tasks :
          parent[c] # 0 /\ state[parent[c]] # "done" =>
            /\ yield[c].executor_ = yield[parent[c]].executor_
            /\ IsStrand(yield[c].executor_)
                 => ~(Running(parent[c]) /\ Running(c)))
  /\ [][\A c \in Tasks :
          parent'[c] # 0 /\ parent[c] = 0 =>
            yield'[c].executor_ = yield[parent'[c]].executor_
     ]_vars

\* the parent runs on the strand, its child is posted there and another
\* worker is idle
C4_Witness ==
  \E c \in Tasks :
    /\ parent[c] # 0
    /\ IsStrand(yield[c].executor_)
    /\ Running(parent[c])
    /\ state[c] = "runnable"
    /\ SomeWorkerIdle

\* C5: spawn only posts the first execution of the new task on its executor
\* and returns (no worker changes what it executes); the first step of the
\* body happens when an idle worker takes that item
C5_FirstRunPosted ==
  [][\A t \in Tasks :
       /\ state[t] = "none" /\ state'[t] # "none" =>
            /\ state'[t] = "runnable"
            /\ inside' = inside
            /\ posted' = [posted EXCEPT ![yield'[t].executor_][t] = @ + 1]
       /\ state[t] = "runnable" /\ ~holder[t].present
          /\ state'[t] = "running" =>
            \E ex \in Executors :
              /\ SomeWorkerIdle
              /\ posted[ex][t] = 1
              /\ posted' = [posted EXCEPT ![ex][t] = 0]
              /\ inside' = [inside EXCEPT ![t][ex] = 1]
    ]_vars

\* a child runs its first step after its parent, which spawned it, suspended
C5_Witness ==
  \E c \in Tasks :
    /\ parent[c] # 0
    /\ state[c] = "running" /\ pc[c] = 0
    /\ state[parent[c]] = "suspended"

\* C6: when the suspended call returns from an operation that reported a
\* non-success error, the error is in the slot and nothing is thrown if the
\* body passed yield[ec]; otherwise a system_error with that error is thrown
\* and the body's error_code is untouched
C6_ErrorSlotOrThrow ==
  [][\A t \in Tasks :
       holder[t].present /\ ~holder'[t].present /\ holder[t].ec # Success =>
         IF holder[t].redirected
           THEN ec'[t] = holder[t].ec /\ exc'[t] = NoException
           ELSE /\ exc'[t].type = "system_error"
                /\ exc'[t].code = holder[t].ec
                /\ ec'[t] = ec[t]
    ]_vars

\* a body goes on after yield[ec] received the error E
C6_Witness ==
  \E t \in Tasks :
    state[t] = "running" /\ ec[t] = "E" /\ exc[t] = NoException

\* the completion handler of t is invoked, for the first time, with e as its
\* error argument, and the worker that drove t is back in its dispatch loop
\* with no exception
DeliveredTo(t, e) ==
  /\ completed'[t].calls = 1
  /\ "exception_ptr" \in DOMAIN completed'[t].args
  /\ completed'[t].args.exception_ptr = e
  /\ Inside(t)' = Inside(t) - 1
  /\ escaped' = escaped

\* C7: when an exception leaves the body (the error thrown at a suspension
\* point, or an exception of the body's own), the completion handler is
\* invoked with that exception as its error argument and no exception
\* escapes into the worker
C7_ExceptionDelivered ==
  [][\A t \in Tasks :
       /\ state[t] = "running" /\ state'[t] = "done" /\ exc[t] # NoException
            => DeliveredTo(t, exc[t])
       /\ \A ex \in Executors :
            Throw(t, ex) => DeliveredTo(t, UserException)
       /\ escaped' = escaped
    ]_vars

\* the handler of a terminated task received the system_error for E
C7_Witness ==
  \E t \in Tasks :
    /\ state[t] = "done"
    /\ completed[t].calls = 1
    /\ completed[t].args.exception_ptr = [type |-> "system_error", code |-> "E"]

\* C8: a body has at most one operation in flight and initiates the next one
\* only after the previous one completed and the task was resumed; the
\* completion handler is invoked exactly once, when the running body ends,
\* and a returning non-void body delivers its result
C8_Inv ==
  \A t \in Tasks :
    /\ pc[t] - resumes[t] \in {0, 1}
    /\ pending[t].active => state[t] = "suspended" /\ pc[t] = resumes[t] + 1
    /\ completed[t].calls = (IF state[t] = "done" THEN 1 ELSE 0)

C8_SequentialThenOnce ==
  /\ []C8_Inv
  /\ [][\A t \in Tasks :
          /\ pc'[t] = pc[t] + 1 =>
               /\ resumes[t] = pc[t]
               /\ ~pending[t].active /\ ~holder[t].present
          /\ completed'[t] # completed[t] =>
               /\ state[t] = "running" /\ state'[t] = "done"
               /\ ~pending[t].active /\ ~holder[t].present
               /\ completed'[t].calls = 1
               /\ "exception_ptr" \in DOMAIN completed'[t].args
               /\ (completed'[t].args.exception_ptr = NoException
                     /\ ~is_void(t)) =>
                    /\ "T" \in DOMAIN completed'[t].args
                    /\ completed'[t].args.T = got[t]
     ]_vars

\* a body awaited two operations in sequence and its handler got the result
C8_Witness ==
  \E t \in Tasks :
    /\ state[t] = "done"
    /\ completed[t].calls = 1
    /\ "T" \in DOMAIN completed[t].args
    /\ completed[t].args.T = 2
    /\ completed[t].args.exception_ptr = NoException

\* t is suspended on an operation or its resumption is posted, not yet run
Parked(t) ==
  \/ state[t] = "suspended"
  \/ state[t] = "runnable" /\ holder[t].present

\* t is parked and the operation it awaits was cancelled
CancelParked(t) ==
  \/ pending[t].active /\ pending[t].cancelled
  \/ /\ state[t] = "runnable" /\ holder[t].present
     /\ holder[t].ec = "operation_aborted"

\* the suspended call of t has just returned with error e
ResumedWith(t, e) ==
  /\ state[t] = "running"
  /\ \/ ec[t] = e /\ exc[t] = NoException
     \/ exc[t] = [type |-> "system_error", code |-> e]

\* C9: under fair scheduling no task stays parked for ever (each time it is
\* parked it later is not, [](Parked => <>~Parked)), a task leaves the parked
\* state only by being resumed, and a task whose operation was cancelled is
\* resumed with the cancellation error
C9_EventuallyResumed ==
  /\ \A t \in Tasks : []<>(~Parked(t))
  /\ [][\A t \in Tasks :
          /\ Parked(t) /\ ~Parked(t)' =>
               state'[t] = "running" /\ resumes'[t] = resumes[t] + 1
          /\ CancelParked(t) /\ ~CancelParked(t)' =>
               ResumedWith(t, "operation_aborted")'
     ]_vars

\* a task whose cancelled operation was awaited with yield[ec] runs again
\* with the cancellation error in ec
C9_Witness ==
  \E t \in Tasks :
    /\ state[t] = "running" /\ resumes[t] >= 1
    /\ ec[t] = "operation_aborted"

\* C10: a terminated task stays terminated: no worker executes it, no
\* callback holds a right to resume it, and its record of the completion
\* handler's invocation never changes
C10_Inv ==
  \A t \in Tasks :
    state[t] = "done" =>
      /\ ~Running(t)
      /\ Holders(t) = 0
      /\ ~pending[t].active /\ ~holder[t].present

C10_TerminatedForGood ==
  /\ []C10_Inv
  /\ [][\A t \in Tasks :
          state[t] = "done" =>
            /\ state'[t] = "done"
            /\ completed'[t] = completed[t]
            /\ Inside(t)' = 0
     ]_vars

\* a task has terminated while the completion of another task's operation
\* is posted
C10_Witness ==
  \E t, u \in Tasks :
    /\ state[t] = "done"
    /\ state[u] = "runnable" /\ holder[u].present

\* C11: an operation completes with a value and an error: the suspended call
\* returns the value to the body exactly when the error is not thrown
\* (the error is success, or it was written to the error-output slot); when
\* the error is thrown the body receives no value
C11_ValueUnlessThrown ==
  [][\A t \in Tasks :
       holder[t].present /\ ~holder'[t].present =>
         /\ holder[t].value # 0
         /\ IF holder[t].ec = Success \/ holder[t].redirected
              THEN got'[t] = holder[t].value /\ exc'[t] = NoException
              ELSE got'[t] = 0 /\ exc'[t].type = "system_error"
    ]_vars

\* a body holds the value of an operation whose error E went to the slot
C11_Witness ==
  \E t \in Tasks :
    state[t] = "running" /\ ec[t] = "E" /\ got[t] >= 1

\* C12: the stack of a task is allocated from spawn until the task
\* terminates and is released exactly once, by the step that terminates it
C12_Inv ==
  \A t \in Tasks :
    /\ state[t] = "none" => stack[t] = NoStack
    /\ state[t] \in {"runnable", "running", "suspended"}
         => stack[t].allocated /\ stack[t].releases = 0
    /\ state[t] = "done" => ~stack[t].allocated /\ stack[t].releases = 1

C12_StackReleasedOnce ==
  /\ []C12_Inv
  /\ [][\A t \in Tasks :
          /\ stack'[t].releases # stack[t].releases =>
               /\ state[t] = "running" /\ state'[t] = "done"
               /\ stack[t].allocated
               /\ stack'[t].releases = 1
          /\ stack[t].allocated /\ ~stack'[t].allocated =>
               state'[t] = "done"
     ]_vars

\* a task that was suspended and resumed has terminated and its stack is
\* released, while another task is parked with its stack allocated
C12_Witness ==
  \E t, u \in Tasks :
    /\ state[t] = "done" /\ stack[t].releases = 1
    /\ "T" \in DOMAIN completed[t].args /\ completed[t].args.T >= 1
    /\ state[u] = "suspended" /\ stack[u].allocated

(***************************************************************************)
(* Properties of the thread group                                          *)
(***************************************************************************)
\* the threads in the list
InPool == {first_[k] : k \in DOMAIN first_}

\* every thread created through the pool has been joined and its item
\* deleted
AllJoined ==
  \A i \in Threads :
    thread[i] # "none" => thread[i] = "joined" /\ node[i] = "deleted"

\* this step is a call of op by the owner
Called(op) ==
  /\ caller = "idle"
  /\ ret'.op = op
  /\ ret' # ret \/ first_' # first_ \/ attr' # attr

\* this step leaves the list, the threads and the items as they are
PoolUnchanged == UNCHANGED <<first_, thread, attr, node>>

\* C13: join() returns only after every thread created in the pool has
\* exited and been joined, and on return the list is empty
C13_JoinWaitsForAll ==
  /\ [](ret.op = "join" /\ caller = "idle" => first_ = << >> /\ AllJoined)
  /\ [][\A i \in Threads :
          thread'[i] = "joined" /\ thread[i] # "joined" =>
            thread[i] = "exited" /\ caller \in {"join", "dtor_join"}
     ]_vars

\* join() was called on a pool of at least two threads and has returned
C13_Witness ==
  /\ ret.op = "join" /\ ret.n >= 2
  /\ caller = "idle"
  /\ first_ = << >>

\* C14: join() on a pool whose list is empty returns at once, joins no
\* thread, deletes no item and leaves the pool unchanged
C14_JoinIdempotent ==
  [][Called("join") /\ first_ = << >> =>
       /\ caller' = "idle"
       /\ PoolUnchanged
    ]_vars

\* a second join() right after a join() that joined a thread
C14_Witness ==
  /\ ret.op = "join" /\ ret.n = 0
  /\ caller = "idle"
  /\ \E i \in Threads : thread[i] = "joined"

\* C15: after the destructor has completed no thread created through the
\* pool is running or unjoined, and nothing happens to the pool any more
C15_DestructorJoinsAll ==
  /\ [](caller = "destroyed" => first_ = << >> /\ AllJoined)
  /\ [][caller = "destroyed" => PoolUnchanged /\ UNCHANGED <<caller, ret>>]_vars

\* the destructor joined a thread, another one had been joined by join()
C15_Witness ==
  /\ caller = "destroyed"
  /\ ret.op = "dtor_join" /\ ret.n = 1
  /\ Cardinality({i \in Threads : thread[i] = "joined"}) >= 2

\* C16: a failed create_thread leaves the pool as it was; create_threads
\* that fails on its i-th creation leaves the i-1 threads it created at the
\* head of the list and creates no other
C16_CreateFailure ==
  [][/\ Called("create_thread") /\ ret'.value # 0 => PoolUnchanged
     /\ Called("create_threads") /\ ret'.value # 0 =>
          LET made == ret'.value - 1 IN
          /\ Len(first_') = Len(first_) + made
          /\ SubSeq(first_', made + 1, Len(first_')) = first_
          /\ \A i \in Threads :
               IF \E k \in 1..made : first_'[k] = i
                 THEN thread[i] = "none" /\ thread'[i] = "running"
                      /\ node'[i] = "live"
                 ELSE thread'[i] = thread[i] /\ node'[i] = node[i]
                      /\ attr'[i] = attr[i]
    ]_vars

\* create_threads(f, 2) failed on its second creation: the first thread it
\* created is in the pool
C16_Witness ==
  /\ ret.op = "create_threads" /\ ret.n = 2 /\ ret.value = 2
  /\ Len(first_) >= 1
  /\ thread[Head(first_)] = "running"

\* C17: a setter called with v leaves every thread of the pool with v for
\* that attribute, changes no other attribute of any thread, and leaves
\* the list as it is
C17_SetterUniform ==
  [][Called("set") =>
       /\ \A i \in Threads : \A b \in Attributes :
            attr'[i][b] = IF i \in InPool /\ b = ret'.attr THEN ret'.value
                          ELSE attr[i][b]
       /\ UNCHANGED <<first_, thread, node, caller>>
    ]_vars

\* a setter set its attribute to 1 in two threads that differ in another
\* attribute
C17_Witness ==
  /\ ret.op = "set" /\ ret.value = 1
  /\ Len(first_) >= 2
  /\ \A i \in InPool : attr[i][ret.attr] = 1
  /\ \E b \in Attributes : attr[first_[1]][b] # attr[first_[2]][b]

\* C18: on a non-empty pool a getter returns the attribute of the head of
\* the list, the most recently created thread still in the pool, and
\* changes nothing
C18_GetterReadsHead ==
  [][Called("get") /\ first_ # << >> =>
       /\ ret'.value = attr[Head(first_)][ret'.attr]
       /\ \A i \in InPool : Head(first_) >= i
       /\ PoolUnchanged
       /\ caller' = "idle"
    ]_vars

\* a getter returned the head's value while the thread behind it holds
\* another one
C18_Witness ==
  /\ ret.op = "get"
  /\ Len(first_) >= 2
  /\ ret.value = attr[first_[1]][ret.attr]
  /\ ret.value # attr[first_[2]][ret.attr]

\* C19: create_thread adds one item at the head of the list;
\* create_threads(f, n) adds n, none when n is 0; the items already in the
\* list stay behind the new ones in their order, and their threads are
\* untouched
C19_CreatePushesFront ==
  [][(Called("create_thread") \/ Called("create_threads"))
       /\ ret'.value = 0 =>
       LET made == ret'.n IN
       /\ Len(first_') = Len(first_) + made
       /\ SubSeq(first_', made + 1, Len(first_')) = first_
       /\ \A k \in 1..made :
            /\ thread[first_'[k]] = "none"
            /\ \A j \in 1..made : first_'[j] = first_'[k] => j = k
       /\ \A i \in Threads :
            i \in InPool =>
              thread'[i] = thread[i] /\ attr'[i] = attr[i]
              /\ node'[i] = node[i]
    ]_vars

\* create_threads(f, 2) put two items in the list, the later one in front
C19_Witness ==
  /\ ret.op = "create_threads" /\ ret.n = 2 /\ ret.value = 0
  /\ Len(first_) >= 2
  /\ first_[1] > first_[2]

\* C20: when the flag is set and every thread exits, a join() that was
\* called returns, and the pool then holds no thread
C20_JoinReturns ==
  [](caller = "join" => <>(caller = "idle" /\ first_ = << >> /\ AllJoined))

\* join() was called on all the threads of the pool before the flag was
\* set, and has returned
C20_Witness ==
  /\ ret.op = "join"
  /\ ret.n = Cardinality({i \in Threads : thread[i] # "none"})
  /\ ret.n >= 2
  /\ flag
  /\ caller = "idle"
  /\ AllJoined

\* C21: an item is deleted only by the loop of join() (also when the
\* destructor runs it), in the step in which the join of its own thread
\* returns; no other operation takes an item out of the list, and the items
\* in the list are live
C21_Inv ==
  /\ \A i \in Threads : node[i] = "deleted" => thread[i] = "joined"
  /\ \A i \in InPool : node[i] = "live"
  /\ \A i \in Threads : node[i] = "live" => i \in InPool

C21_DeletedAfterJoin ==
  /\ []C21_Inv
  /\ [][\A i \in Threads :
          /\ node'[i] = "deleted" /\ node[i] # "deleted" =>
               /\ caller \in {"join", "dtor_join"}
               /\ thread[i] = "exited" /\ thread'[i] = "joined"
          /\ i \in InPool /\ i \notin InPool' =>
               /\ caller \in {"join", "dtor_join"}
               /\ node'[i] = "deleted"
     ]_vars

\* join() deleted the item of a joined thread and is blocked on the next
\* thread, whose item is live
C21_Witness ==
  /\ caller = "join"
  /\ \E i \in Threads : node[i] = "deleted" /\ thread[i] = "joined"
  /\ first_ # << >>
  /\ node[Head(first_)] = "live" /\ thread[Head(first_)] = "running"

\* C22: join() joins the head of the list, the most recently created thread
\* in it, and unlinks and deletes that item in the same iteration, before it
\* waits for the next thread; while join() is in progress the threads behind
\* the head, all created before it, are in the list and not joined
C22_Inv ==
  caller \in {"join", "dtor_join"} =>
    /\ first_ # << >>
    /\ \A k \in 1..Len(first_) :
         /\ thread[first_[k]] \in {"running", "exited"}
         /\ node[first_[k]] = "live"
         /\ k > 1 => first_[k] < first_[k - 1]

C23_GetterNeedsHead ==
  /\ [](caller = "crashed" =>
          ret.op = "get" /\ ret.value = Crash /\ first_ = << >>)
  /\ [][/\ Called("get") /\ first_ # << >> =>
             /\ ret'.value = attr[Head(first_)][ret'.attr]
             /\ ret'.value \in Values
             /\ caller' = "idle"
        /\ caller' = "crashed" /\ caller # "crashed" =>
             Called("get") /\ first_ = << >>
        /\ Called("set") /\ first_ = << >> =>
             PoolUnchanged /\ caller' = "idle"
     ]_vars

\* a getter called after join() emptied the pool read through the null head
C23_Witness ==
  /\ caller = "crashed"
  /\ ret.op = "get"
  /\ first_ = << >>
  /\ \E i \in Threads : thread[i] = "joined"

\* C24: a thread gets the attributes passed to the call that creates it, the
\* default ones when none are passed, whatever the setters set before; a
\* setter touches only the threads in the list at the call
C24_SetterNotSticky ==
  [][/\ \A i \in Threads :
          thread[i] = "none" /\ thread'[i] # "none" =>
            /\ (\/ \E ok \in BOOLEAN : create_thread(ok)
                \/ \E n, failAt \in 0..MaxThreads : create_threads(n, failAt))
                 => attr'[i] = attributes_default
            /\ \A at \in AttrChoices :
                 (\/ \E ok \in BOOLEAN : create_thread_attr(at, ok)
                  \/ \E n, failAt \in 0..MaxThreads :
                       create_threads_attr(at, n, failAt))
                   => attr'[i] = at
     /\ Called("set") =>
          \A i \in Threads : i \notin InPool => attr'[i] = attr[i]
    ]_vars

\* priority(1) was called, then a thread was created with default
\* attributes: the getter priority() returns 0 while the older thread holds 1
C24_Witness ==
  /\ ret.op = "get" /\ ret.attr = "priority" /\ ret.value = 0
  /\ Len(first_) >= 2
  /\ attr[first_[1]] = attributes_default
  /\ attr[first_[2]]["priority"] = 1
  /\ attr[first_[2]]["native_priority"] = 0

\* C25: the token an operation is initiated with, derived from the task's
\* yield context by yield[ec] and by conversion, refers to the same task and
\* executor as that context; it carries the error-output slot exactly when
\* yield[ec] was applied, also through a conversion, and the task's own
\* context, created without a slot, never gets one
C25_DerivedContext ==
  /\ [](\A t \in Tasks :
          /\ yield[t].ec_ = 0
          /\ state[t] \notin {"none", "done"} => yield[t].spawned_thread_ = t)
  /\ [][\A t \in Tasks :
          ~pending[t].active /\ pending'[t].active =>
            /\ pending'[t].token.spawned_thread_ = yield[t].spawned_thread_
            /\ pending'[t].token.executor_ = yield[t].executor_
            /\ pending'[t].token.ec_ =
                 (IF pending'[t].redirected THEN t ELSE yield[t].ec_)
            /\ yield'[t] = yield[t]
     ]_vars

\* an operation is pending with a token that carries the slot of a task
\* bound to the strand, while the task's own context has none
C25_Witness ==
  \E t \in Tasks :
    /\ pending[t].active
    /\ pending[t].token.ec_ = t
    /\ pending[t].token.executor_ = "strand"
    /\ pending[t].token.spawned_thread_ = t
    /\ yield[t].ec_ = 0 /\ yield[t].executor_ = "strand"

====
